---- MODULE Spec2Model ----
(***************************************************************************)
(* Model of lsd's metadata tree (src/meta/mod.rs): Meta::from_path,        *)
(* Meta::recurse_into, Meta::calculate_total_size and                      *)
(* Meta::calculate_total_file_size, run against a small filesystem with    *)
(* a symlink, a dot-named file, an empty directory and injected I/O        *)
(* failures.                                                               *)
(*                                                                         *)
(* A file name is a sequence of characters, a path a sequence of names     *)
(* (<<>> is "/").  Option<T> is a sequence of length at most one: None is  *)
(* <<>>, Some(v) is <<v>>.  Result<T, E> is a record with field ok.        *)
(***************************************************************************)
EXTENDS Integers, Sequences, FiniteSets, TLC

\* ------------------------------------------------------------------ bounds
\* Largest depth budget tried; the filesystem below is three levels high.
MaxDepth == 3
\* Largest number of system calls that fail in one run.
MaxFaults == 1

\* ------------------------------------------------------- Option and Result
None == <<>>
Some(v) == <<v>>
IsSome(o) == Len(o) = 1
Unwrap(o) == o[1]
Ok(v) == [ok |-> TRUE, val |-> v]
Err(e) == [ok |-> FALSE, err |-> e]

\* ------------------------------------------------------------------- names
NameR == <<"r">>
NameA == <<"a">>
NameH == <<".", "h">>
NameL == <<"l">>
NameS == <<"s">>
NameB == <<"b">>
NameT == <<"x", ".", "t">>
NameE == <<"e">>
NameU == <<"u">>
NameGone == <<"g">>
Dot == <<".">>
DotDot == <<".", ".">>

\* ------------------------------------------------------------- Display mode
DisplayAll == "DisplayAll"
DisplayOnlyVisible == "DisplayOnlyVisible"
DisplayDirectoryItself == "DisplayDirectoryItself"
\* The remaining mode of crate::flags::Display, none of the three the tree
\* builder names.
DisplayDefault == "DisplayDefault"
Display == {DisplayAll, DisplayOnlyVisible, DisplayDirectoryItself, DisplayDefault}

\* ---------------------------------------------------------------- FileType
Directory == "Directory"
File == "File"
SymLink == "SymLink"

VARIABLES
    target,        \* filesystem: where the symlink /r/l points
    faults,        \* filesystem: the system calls that fail, <<call, path>>
    start,         \* input: the path being listed
    budget,        \* input: the depth budget
    mode,          \* input: the display mode
    globs,         \* input: the exclusion set, a set of glob patterns
    meta,          \* Option<Meta>: the root node
    log,           \* the paths reported on the error channel, in order
    reads,         \* the paths recurse_into called read_dir on
    pc             \* "start", "made", "built", "sized" or "failed"

vars == <<target, faults, start, budget, mode, globs, meta, log, reads, pc>>

\* -------------------------------------------------------------- filesystem
\* /            directory
\* /r           directory
\* /r/a         file
\* /r/.h        file
\* /r/l         symlink -> target
\* /r/s         directory
\* /r/s/b       file
\* /r/s/x.t     file
\* /r/s/e       directory, empty
\* /r/u         directory, empty
\* Every entry has a length of its own power of two, so that a sum of lengths
\* tells which entries it counts and how often.
Inode(kind, k, entries) ==
    [kind |-> kind, len |-> 2 ^ k, mode |-> <<kind, k>>, mtime |-> 100 + k,
     uid |-> 1000 + (k % 2), entries |-> entries]

Disk ==
    (<<>> :> Inode("dir", 0, <<NameR>>))
    @@ (<<NameR>> :> Inode("dir", 1, <<NameA, NameH, NameL, NameS, NameU>>))
    @@ (<<NameR, NameA>> :> Inode("file", 2, <<>>))
    @@ (<<NameR, NameH>> :> Inode("file", 3, <<>>))
    @@ (<<NameR, NameL>> :> Inode("symlink", 4, <<>>))
    @@ (<<NameR, NameS>> :> Inode("dir", 5, <<NameB, NameT, NameE>>))
    @@ (<<NameR, NameS, NameB>> :> Inode("file", 6, <<>>))
    @@ (<<NameR, NameS, NameT>> :> Inode("file", 7, <<>>))
    @@ (<<NameR, NameS, NameE>> :> Inode("dir", 8, <<>>))
    @@ (<<NameR, NameU>> :> Inode("dir", 9, <<>>))

LinkTargets == {<<NameR, NameS>>, <<NameR>>, <<NameR, NameGone>>}

\* Path resolution: cur is the resolved prefix, rest the components still to
\* walk.  A symlink met on the way is replaced by its target; the last
\* component is replaced only when follow is set.
RECURSIVE Walk(_, _, _)
Walk(cur, rest, follow) ==
    IF rest = <<>> THEN Ok(cur)
    ELSE LET nxt == Append(cur, Head(rest)) IN
         IF nxt \notin DOMAIN Disk THEN Err("not found")
         ELSE IF Disk[nxt].kind = "symlink"
              THEN IF Tail(rest) = <<>> /\ ~follow THEN Ok(nxt)
                   ELSE Walk(<<>>, target \o Tail(rest), follow)
              ELSE IF Tail(rest) # <<>> /\ Disk[nxt].kind # "dir"
                   THEN Err("not a directory")
                   ELSE Walk(nxt, Tail(rest), follow)

Fault(call, p) == <<call, p>> \in faults

\* std::fs::read_link(p).is_ok()
IsLinkAt(w) == w.ok /\ Disk[w.val].kind = "symlink"
IsLink(p) == IsLinkAt(Walk(<<>>, p, FALSE))

\* The metadata of the entry a path resolves to.
MetadataAt(p, w) ==
    IF Fault("metadata", p) THEN Err("permission denied")
    ELSE IF w.ok THEN Ok(Disk[w.val]) ELSE w

\* Path::metadata
Metadata(p) == MetadataAt(p, Walk(<<>>, p, TRUE))

\* Path::symlink_metadata
SymlinkMetadata(p) == MetadataAt(p, Walk(<<>>, p, FALSE))

\* Path::read_dir: the entries in the order of the enumeration, each one
\* Ok(path of the entry) or an error.
DirEntry(e) == IF Fault("entry", e) THEN Err("io error") ELSE Ok(e)
ReadDirAt(p, w) ==
    IF Fault("read_dir", p) THEN Err("permission denied")
    ELSE IF ~w.ok THEN w
    ELSE IF Disk[w.val].kind # "dir" THEN Err("not a directory")
    ELSE Ok([i \in 1..Len(Disk[w.val].entries) |->
                DirEntry(Append(p, Disk[w.val].entries[i]))])
ReadDir(p) == ReadDirAt(p, Walk(<<>>, p, TRUE))

\* std::fs::canonicalize
Canonicalize(p) ==
    IF Fault("canonicalize", p) THEN Err("permission denied")
    ELSE Walk(<<>>, p, TRUE)

\* Path::parent
Parent(p) == IF p = <<>> THEN None ELSE Some(SubSeq(p, 1, Len(p) - 1))

\* Path::file_name
FileName(p) ==
    IF p = <<>> \/ Fault("file_name", p) THEN None ELSE Some(p[Len(p)])

\* ------------------------------------------------------------------ from_path
FileTypeNew(metadata) ==
    CASE metadata.kind = "dir" -> Directory
      [] metadata.kind = "symlink" -> SymLink
      [] OTHER -> File

IndicatorFrom(file_type) ==
    CASE file_type = Directory -> "/"
      [] file_type = SymLink -> "@"
      [] OTHER -> ""

NameNew(p) == IF p = <<>> THEN <<"/">> ELSE p[Len(p)]

SymLinkFrom(p) == IF IsLink(p) THEN Some(target) ELSE None

\* The metadata from_path reads: the link's own when the path is a link.
Stat(p) == IF IsLink(p) THEN SymlinkMetadata(p) ELSE Metadata(p)

MetaFrom(p, metadata) ==
    IF ~metadata.ok THEN metadata
    ELSE Ok([name |-> NameNew(p),
             path |-> p,
             permissions |-> metadata.val.mode,
             date |-> metadata.val.mtime,
             owner |-> metadata.val.uid,
             file_type |-> FileTypeNew(metadata.val),
             size |-> metadata.val.len,
             symlink |-> SymLinkFrom(p),
             indicator |-> IndicatorFrom(FileTypeNew(metadata.val)),
             content |-> None])

FromPath(p) == MetaFrom(p, Stat(p))

\* --------------------------------------------------------------- recurse_into
\* GlobSet::is_match: "*" in a pattern stands for any run of characters.
RECURSIVE GlobMatch(_, _)
GlobMatch(pattern, name) ==
    IF pattern = <<>> THEN name = <<>>
    ELSE IF Head(pattern) = "*"
         THEN GlobMatch(Tail(pattern), name)
              \/ (name # <<>> /\ GlobMatch(pattern, Tail(name)))
         ELSE name # <<>> /\ Head(name) = Head(pattern)
              /\ GlobMatch(Tail(pattern), Tail(name))

\* A build of the exclusion test that matches nothing.
IsMatchNever(ignore_globs, name) == FALSE

IsMatch(ignore_globs, name) == \E g \in ignore_globs : GlobMatch(g, name)

StartsWithDot(name) == name # <<>> /\ Head(name) = "."

\* A hidden-file rule that passes over nothing.
SkipHiddenNever(display, name) == FALSE

\* The hidden-file rule: the entry is passed over.
SkipHidden(display, name) == display = DisplayOnlyVisible /\ StartsWithDot(name)

\* A child called with the budget of its parent.
ChildDepthSame(depth) == depth

\* The budget handed to the call on a child.
ChildDepth(depth) == depth - 1

\* The result of a call: Ok(val) or Err(why), with what the call printed on
\* the error channel and the directories it called read_dir on.
Returns(val, lg, rd) == [ok |-> TRUE, val |-> val, log |-> lg, reads |-> rd]
Fails(why, lg, rd) == [ok |-> FALSE, err |-> why, log |-> lg, reads |-> rd]

\* read_dir failed and the node is given an empty list.
OpenFailedAsEmpty(self) == Returns(Some(<<>>), <<self.path>>, {self.path})

\* read_dir failed and the failure is passed on to the caller.
OpenFailedFatal(self) == Fails("read_dir", <<>>, {self.path})

\* read_dir failed: the failure is reported and the node keeps no content.
OpenFailed(self) == Returns(None, <<self.path>>, {self.path})

ParentPath(absolute_path) ==
    IF Parent(absolute_path) = None THEN <<>> ELSE Unwrap(Parent(absolute_path))

\* "." is the node under another name, ".." the node of parent_meta.
SyntheticPair(self, parent_meta) ==
    IF ~parent_meta.ok THEN Err("parent")
    ELSE Ok(<<[self EXCEPT !.name = Dot],
              [parent_meta.val EXCEPT !.name = DotDot]>>)

\* ".." taken from the parent of the path as written, not canonicalized.
SyntheticEntriesUncanonical(self) ==
    SyntheticPair(self, FromPath(ParentPath(self.path)))

SyntheticFrom(self, absolute_path) ==
    IF ~absolute_path.ok THEN Err("canonicalize")
    ELSE SyntheticPair(self, FromPath(ParentPath(absolute_path.val)))

\* The "." and ".." entries of DisplayAll.
SyntheticEntries(self) == SyntheticFrom(self, Canonicalize(self.path))

\* The recursive call on a child failed and the child is kept without content.
ChildFailedKept(content, entry_meta) == Append(content, entry_meta)

\* The recursive call on a child failed: the failure is reported and the
\* loop goes on to the next entry.
ChildFailed(content, entry_meta) == content

RECURSIVE RecurseInto(_, _, _, _)
RECURSIVE ForEntries(_, _, _, _, _, _, _, _)

\* The loop body once the recursive call on the child has returned sub.
WithChild(entries, i, p, entry_meta, sub, content, lg, rd, depth, display, ignore_globs) ==
    IF sub.ok
    THEN ForEntries(entries, i + 1,
                    Append(content, [entry_meta EXCEPT !.content = sub.val]),
                    lg \o sub.log, rd \cup sub.reads, depth, display, ignore_globs)
    ELSE ForEntries(entries, i + 1, ChildFailed(content, entry_meta),
                    Append(lg \o sub.log, p), rd \cup sub.reads,
                    depth, display, ignore_globs)

\* The loop body once from_path on the entry has returned entry_meta.
WithMeta(entries, i, p, entry_meta, content, lg, rd, depth, display, ignore_globs) ==
    IF ~entry_meta.ok
    THEN ForEntries(entries, i + 1, content, Append(lg, p), rd,
                    depth, display, ignore_globs)
    ELSE WithChild(entries, i, p, entry_meta.val,
                   RecurseInto(entry_meta.val, ChildDepth(depth), display, ignore_globs),
                   content, lg, rd, depth, display, ignore_globs)

\* The loop body for the entry at p, whose file name is name.
ForEntry(entries, i, p, name, content, lg, rd, depth, display, ignore_globs) ==
    IF name = None THEN Fails("file_name", lg, rd)
    ELSE IF IsMatch(ignore_globs, Unwrap(name))
         THEN ForEntries(entries, i + 1, content, lg, rd, depth, display, ignore_globs)
    ELSE IF SkipHidden(display, Unwrap(name))
         THEN ForEntries(entries, i + 1, content, lg, rd, depth, display, ignore_globs)
    ELSE WithMeta(entries, i, p, FromPath(p), content, lg, rd,
                  depth, display, ignore_globs)

\* The loop over the entries, from entry i on.
ForEntries(entries, i, content, lg, rd, depth, display, ignore_globs) ==
    IF i > Len(entries) THEN Returns(Some(content), lg, rd)
    ELSE IF ~entries[i].ok THEN Fails("entry", lg, rd)
    ELSE ForEntry(entries, i, entries[i].val, FileName(entries[i].val),
                  content, lg, rd, depth, display, ignore_globs)

\* The loop, entered with the synthetic entries as the first content.
WithSynthetic(self, entries, synthetic, depth, display, ignore_globs) ==
    IF ~synthetic.ok THEN Fails(synthetic.err, <<>>, {self.path})
    ELSE ForEntries(entries, 1, synthetic.val, <<>>, {self.path},
                    depth, display, ignore_globs)

\* The call once read_dir has returned entries.
Enumerate(self, entries, depth, display, ignore_globs) ==
    IF ~entries.ok THEN OpenFailed(self)
    ELSE IF display = DisplayAll
         THEN WithSynthetic(self, entries.val, SyntheticEntries(self),
                            depth, display, ignore_globs)
         ELSE ForEntries(entries.val, 1, <<>>, <<>>, {self.path},
                         depth, display, ignore_globs)

RecurseInto(self, depth, display, ignore_globs) ==
    IF depth = 0 THEN Returns(None, <<>>, {})
    ELSE IF display = DisplayDirectoryItself THEN Returns(None, <<>>, {})
    ELSE IF self.file_type # Directory THEN Returns(None, <<>>, {})
    ELSE Enumerate(self, ReadDir(self.path), depth, display, ignore_globs)

\* ------------------------------------------------------- calculate_total_size
RECURSIVE SumSizes(_, _)
SumSizes(metas, i) ==
    IF i > Len(metas) THEN 0 ELSE metas[i].size + SumSizes(metas, i + 1)

RECURSIVE CalculateTotalFileSize(_)
RECURSIVE WalkEntries(_, _)

\* The size of a directory: its own, and its entries' when it can be read.
DirSize(size, entries) ==
    IF ~entries.ok THEN size ELSE size + WalkEntries(entries.val, 1)

\* The size of the entry at p, whose metadata is metadata.
SizeFrom(p, metadata) ==
    IF ~metadata.ok THEN 0
    ELSE IF metadata.val.kind = "file" THEN metadata.val.len
    ELSE IF metadata.val.kind = "dir" THEN DirSize(metadata.val.len, ReadDir(p))
    ELSE 0

CalculateTotalFileSize(p) == SizeFrom(p, Stat(p))

WalkEntries(entries, i) ==
    IF i > Len(entries) THEN 0
    ELSE IF ~entries[i].ok THEN WalkEntries(entries, i + 1)
    ELSE CalculateTotalFileSize(entries[i].val) + WalkEntries(entries, i + 1)

\* The node with the sizes of its finished children added to its own.
Accumulate(self, metas) ==
    [self EXCEPT !.size = self.size + SumSizes(metas, 1), !.content = Some(metas)]

RECURSIVE CalculateTotalSize(_)
CalculateTotalSize(self) ==
    IF self.file_type = Directory
    THEN IF IsSome(self.content)
         THEN Accumulate(self, [i \in 1..Len(Unwrap(self.content)) |->
                                   CalculateTotalSize(Unwrap(self.content)[i])])
         ELSE [self EXCEPT !.size = CalculateTotalFileSize(self.path)]
    ELSE self

\* ------------------------------------------------------------- state machine
StartPaths ==
    {<<>>, <<NameR>>, <<NameR, NameS>>, <<NameR, NameL>>, <<NameR, NameL, NameE>>}

GlobT == <<"*", ".", "t">>
GlobDot == <<".", "*">>
IgnoreSets == {{}, {GlobT}, {GlobDot}}

Faults ==
    {<<"read_dir", <<NameR, NameS>>>>,
     <<"read_dir", <<NameR, NameU>>>>,
     <<"metadata", <<NameR, NameA>>>>,
     <<"metadata", <<NameR>>>>,
     <<"canonicalize", <<NameR, NameS>>>>,
     <<"entry", <<NameR, NameS, NameT>>>>,
     <<"file_name", <<NameR, NameS, NameB>>>>}

Init ==
    /\ target \in LinkTargets
    /\ faults \in {f \in SUBSET Faults : Cardinality(f) <= MaxFaults}
    /\ start \in StartPaths
    /\ budget \in 0..MaxDepth
    /\ mode \in Display
    /\ globs \in IgnoreSets
    /\ meta = None
    /\ log = <<>>
    /\ reads = {}
    /\ pc = "start"

\* let mut meta = Meta::from_path(&path)
FromPathRoot ==
    /\ pc = "start"
    /\ \E r \in {FromPath(start)} :
          /\ meta' = IF r.ok THEN Some(r.val) ELSE None
          /\ pc' = IF r.ok THEN "made" ELSE "failed"
    /\ UNCHANGED <<target, faults, start, budget, mode, globs, log, reads>>

\* meta.content = meta.recurse_into(depth, display, ignore_globs)?
Recurse ==
    /\ pc = "made"
    /\ \E r \in {RecurseInto(Unwrap(meta), budget, mode, globs)} :
          /\ meta' = IF r.ok THEN Some([Unwrap(meta) EXCEPT !.content = r.val])
                     ELSE meta
          /\ pc' = IF r.ok THEN "built" ELSE "failed"
          /\ log' = r.log
          /\ reads' = r.reads
    /\ UNCHANGED <<target, faults, start, budget, mode, globs>>

\* meta.calculate_total_size()
TotalSize ==
    /\ pc = "built"
    /\ meta' = Some(CalculateTotalSize(Unwrap(meta)))
    /\ pc' = "sized"
    /\ UNCHANGED <<target, faults, start, budget, mode, globs, log, reads>>

Next == FromPathRoot \/ Recurse \/ TotalSize

Spec == Init /\ [][Next]_vars

\* ------------------------------------------------------ the tree that is built
\* Every node of the tree under m, with the number of levels it lies below m.
RECURSIVE NodesAt(_, _)
NodesAt(m, level) ==
    {[node |-> m, level |-> level]}
    \cup (IF IsSome(m.content)
          THEN UNION {NodesAt(Unwrap(m.content)[i], level + 1) :
                        i \in 1..Len(Unwrap(m.content))}
          ELSE {})

Tree == IF IsSome(meta) THEN NodesAt(Unwrap(meta), 0) ELSE {}
Built == pc \in {"built", "sized"}
Root == Unwrap(meta)

\* The budget recurse_into had at a node: the root's less the node's level.
BudgetAt(n) == budget - n.level

\* The "." and ".." entries are the first two of a list built under DisplayAll.
FirstReal == IF mode = DisplayAll THEN 3 ELSE 1
IsSynthetic(n) == mode = DisplayAll /\ n.level > 0 /\ n.node.name \in {Dot, DotDot}

\* The lengths of everything at or beneath the directory dir, each once.
RECURSIVE SumLen(_)
SumLen(paths) ==
    IF paths = {} THEN 0
    ELSE LET q == CHOOSE q \in paths : TRUE IN Disk[q].len + SumLen(paths \ {q})

IsPrefix(a, b) == Len(a) <= Len(b) /\ SubSeq(b, 1, Len(a)) = a
Beneath(dir) == {q \in DOMAIN Disk : IsPrefix(dir, q)}
Height(dir) == CHOOSE h \in 0..Cardinality(DOMAIN Disk) :
                  /\ \E q \in Beneath(dir) : Len(q) - Len(dir) = h
                  /\ \A q \in Beneath(dir) : Len(q) - Len(dir) <= h
Unbounded == Cardinality(DOMAIN Disk)
Canonical(p) == Walk(<<>>, p, TRUE).val

\* The name matches a pattern of the exclusion set.
Excluded(name) == \E g \in globs : GlobMatch(g, name)

\* No entry beneath dir is passed over by the exclusion set or the hidden rule.
NothingFiltered(dir) ==
    \A q \in Beneath(dir) \ {dir} :
        /\ ~Excluded(q[Len(q)])
        /\ ~(mode = DisplayOnlyVisible /\ StartsWithDot(q[Len(q)]))

\* C1: with nothing filtered and a budget of at least the tree's height, in a
\* mode that recurses, one calculate_total_size gives the root its own size
\* plus the size of every file and directory beneath it, each counted once.
C1_TotalCountsEachEntryOnce ==
    (/\ pc = "sized"
     /\ faults = {}
     /\ mode # DisplayDirectoryItself
     /\ Root.file_type = Directory
     /\ budget >= Height(Canonical(start))
     /\ NothingFiltered(Canonical(start)))
    => Root.size = SumLen(Beneath(Canonical(start)))

\* The same, for the modes that add no "." and ".." entries.
C1_HoldsWithoutSynthetic ==
    (/\ pc = "sized"
     /\ faults = {}
     /\ mode \notin {DisplayDirectoryItself, DisplayAll}
     /\ Root.file_type = Directory
     /\ budget >= Height(Canonical(start))
     /\ NothingFiltered(Canonical(start)))
    => Root.size = SumLen(Beneath(Canonical(start)))

\* The root size after a build with the budget d and one calculate_total_size.
AggregatedSize(d) ==
    LET fresh == FromPath(start).val
        r == RecurseInto(fresh, d, mode, globs)
    IN  CalculateTotalSize([fresh EXCEPT !.content = r.val]).size

\* C2: the root size after a build with budget 1 and aggregation equals the
\* root size after a build with unbounded budget and aggregation.
C2_FallbackAgreesWithTree ==
    (/\ pc = "sized"
     /\ budget = 1
     /\ RecurseInto(FromPath(start).val, Unbounded, mode, globs).ok)
    => Root.size = AggregatedSize(Unbounded)

\* The reasons the tree builder returns no list for a node.
NotEnumerated(n) ==
    \/ BudgetAt(n) = 0
    \/ n.node.file_type # Directory
    \/ mode = DisplayDirectoryItself
    \/ (~ReadDir(n.node.path).ok /\ \E i \in 1..Len(log) : log[i] = n.node.path)

\* C3 (as stated): a node's children are absent exactly when the budget at the
\* node was 0, the node is no directory, the mode is DisplayDirectoryItself or
\* opening the directory failed and was reported.
C3_NoneIffNotEnumerated ==
    Built => \A n \in Tree : (n.node.content = None) <=> NotEnumerated(n)

\* C3 (amended): the same, with one more reason: the node is a "." or ".."
\* entry of DisplayAll, which recurse_into never descends into.  A directory
\* that was enumerated has a list, empty when no entry survived.
C3_NoneIffNotEnumeratedOrSynthetic ==
    Built => \A n \in Tree :
        (n.node.content = None) <=> (NotEnumerated(n) \/ IsSynthetic(n))

C3_Witness ==
    /\ Built
    /\ \E n \in Tree : n.node.content = Some(<<>>)
    /\ \E n \in Tree :
          /\ n.node.file_type = Directory
          /\ n.node.content = None
          /\ BudgetAt(n) > 0
          /\ ~ReadDir(n.node.path).ok

\* C4 (as stated): no node beneath the root has a name that matches a pattern
\* of the exclusion set.
C4_NoExcludedName ==
    Built => \A n \in Tree : n.level > 0 => ~Excluded(n.node.name)

\* C4 (amended): no entry read from a directory appears under a name that
\* matches the exclusion set; only the "." and ".." entries of DisplayAll,
\* which are added without asking the exclusion set, can carry such a name.
C4_NoExcludedEntry ==
    Built => \A n \in Tree :
        (n.level > 0 /\ Excluded(n.node.name)) => IsSynthetic(n)

C4_Witness ==
    /\ Built
    /\ \E n \in Tree :
          /\ IsSome(n.node.content)
          /\ ReadDir(n.node.path).ok
          /\ \E i \in 1..Len(ReadDir(n.node.path).val) :
                LET e == ReadDir(n.node.path).val[i] IN
                e.ok /\ Excluded(e.val[Len(e.val)])

\* C5 (as stated): a child whose name starts with "." appears only under
\* DisplayAll.
C5_DotNamesOnlyUnderAll ==
    Built => \A n \in Tree :
        (n.level > 0 /\ StartsWithDot(n.node.name)) => mode = DisplayAll

\* C5 (amended): under DisplayOnlyVisible no child has a name that starts with
\* "."; the "." and ".." entries appear only under DisplayAll; under any other
\* mode that recurses a dot-named directory entry is kept like any other.
C5_DotNamesHiddenUnderOnlyVisible ==
    Built =>
        /\ \A n \in Tree :
              /\ (n.level > 0 /\ StartsWithDot(n.node.name))
                    => mode # DisplayOnlyVisible
              /\ (n.level > 0 /\ n.node.name \in {Dot, DotDot})
                    => mode = DisplayAll
        /\ \A n \in Tree :
              (/\ mode \notin {DisplayOnlyVisible, DisplayDirectoryItself}
               /\ IsSome(n.node.content)
               /\ Canonical(n.node.path) = <<NameR>>
               /\ ~Excluded(NameH))
              => \E i \in 1..Len(Unwrap(n.node.content)) :
                    Unwrap(n.node.content)[i].name = NameH

C5_Witness ==
    /\ Built
    /\ mode = DisplayOnlyVisible
    /\ <<NameR>> \in reads
    /\ ~Excluded(NameH)

\* C6: under DisplayAll every list recurse_into returns starts with ".", the
\* node itself under another name, and "..", the node of the canonical parent
\* path ("/" when there is none); the entries read from the directory follow.
\* The node is compared as recurse_into saw it, before its content was set.
C6_SyntheticEntriesFirst ==
    (pc = "built" /\ mode = DisplayAll) => \A n \in Tree :
        IsSome(n.node.content) =>
            LET c == Unwrap(n.node.content)
                abs == Canonical(n.node.path)
                up == IF abs = <<>> THEN <<>> ELSE SubSeq(abs, 1, Len(abs) - 1)
            IN  /\ Len(c) >= 2
                /\ c[1] = [n.node EXCEPT !.name = Dot, !.content = None]
                /\ c[2].name = DotDot
                /\ c[2].path = up
                /\ c[2].file_type = Directory
                /\ c[2].size = Disk[up].len
                /\ c[2].content = None
                /\ \A i \in 3..Len(c) : c[i].name \notin {Dot, DotDot}

C6_Witness ==
    /\ pc = "built"
    /\ mode = DisplayAll
    /\ start = <<NameR, NameL, NameE>>
    /\ IsSome(Root.content)
    /\ Len(Unwrap(Root.content)) = 2

\* C7: no node lies more than budget levels below the root, a node exactly
\* budget levels below it has no children, and read_dir is called only on
\* directories less than budget levels below the root: never with budget 0.
C7_DepthBudget ==
    /\ Built => \A n \in Tree :
          /\ n.level <= budget
          /\ n.level = budget => n.node.content = None
    /\ \A p \in reads : Len(p) - Len(start) < budget
    /\ budget = 0 => reads = {}

C7_Witness ==
    /\ Built
    /\ budget >= 1
    /\ \E n \in Tree :
          n.level = budget /\ n.node.file_type = Directory /\ ~IsSynthetic(n)

\* The entries of a directory that was read without an error, and what
\* becomes of each of them in a call with the budget b.
EntryPaths(dir) == [i \in 1..Len(ReadDir(dir).val) |-> ReadDir(dir).val[i].val]
Filtered(p) ==
    \/ Excluded(p[Len(p)])
    \/ (mode = DisplayOnlyVisible /\ StartsWithDot(p[Len(p)]))
Constructed(p) == ~Filtered(p) /\ FromPath(p).ok
Descends(p, b) == RecurseInto(FromPath(p).val, b - 1, mode, globs).ok
Reported(p) == \E i \in 1..Len(log) : log[i] = p
RealPaths(c) == [i \in 1..(Len(c) - FirstReal + 1) |-> c[i + FirstReal - 1].path]
Survivors(dir, b) ==
    LET Survives(p) == Constructed(p) /\ Descends(p, b) IN
    SelectSeq(EntryPaths(dir), Survives)
\* The nodes whose directory was enumerated, with the entries of each.
Enumerated == {n \in Tree : IsSome(n.node.content)}
FailingChildren(n) ==
    {i \in 1..Len(EntryPaths(n.node.path)) :
        /\ Constructed(EntryPaths(n.node.path)[i])
        /\ ~Descends(EntryPaths(n.node.path)[i], BudgetAt(n))}

\* C8 (as stated): a child whose recursive call fails is reported and still
\* appended to its parent's list, with no children of its own.
C8_FailedChildKept ==
    pc = "built" => \A n \in Enumerated : \A i \in FailingChildren(n) :
        LET c == Unwrap(n.node.content) IN
        \E j \in FirstReal..Len(c) :
            c[j].path = EntryPaths(n.node.path)[i] /\ c[j].content = None

\* C8 (amended): a child whose recursive call fails is reported and left out
\* of its parent's list; the other entries of the directory are processed as
\* usual and the parent's call does not fail.
C8_FailedChildSkipped ==
    pc = "built" => \A n \in Enumerated : \A i \in FailingChildren(n) :
        LET c == Unwrap(n.node.content)
            e == EntryPaths(n.node.path)
        IN  /\ \A j \in FirstReal..Len(c) : c[j].path # e[i]
            /\ Reported(e[i])
            /\ \A k \in 1..Len(e) :
                  (Constructed(e[k]) /\ Descends(e[k], BudgetAt(n)))
                  => \E j \in FirstReal..Len(c) : c[j].path = e[k]

C8_Witness ==
    /\ pc = "built"
    /\ \E n \in Enumerated :
          /\ FailingChildren(n) # {}
          /\ Len(Unwrap(n.node.content)) >= FirstReal

\* The failures that make the root's recurse_into return an error.
CanonicalizeFails == mode = DisplayAll /\ ~Canonicalize(start).ok
FileNameFails ==
    ReadDir(start).ok /\ \E i \in 1..Len(ReadDir(start).val) :
        ReadDir(start).val[i].ok /\ FileName(ReadDir(start).val[i].val) = None
ParentFails ==
    /\ mode = DisplayAll
    /\ Canonicalize(start).ok
    /\ ~FromPath(IF Canonical(start) = <<>> THEN <<>>
                 ELSE SubSeq(Canonical(start), 1, Len(Canonical(start)) - 1)).ok
EntryFails == ReadDir(start).ok /\ \E i \in 1..Len(ReadDir(start).val) : ~ReadDir(start).val[i].ok
RecurseFailed == pc = "failed" /\ IsSome(meta)

\* C9 (as stated): recurse_into returns an error only when canonicalizing the
\* node's path fails or the file name of an entry cannot be extracted.
C9_FatalOnlyCanonicalizeOrName ==
    RecurseFailed => (CanonicalizeFails \/ FileNameFails)

\* C9 (amended): recurse_into returns an error only when canonicalizing the
\* node's path fails, the node of the parent path for ".." cannot be built,
\* reading an entry of the directory fails or the file name of an entry cannot
\* be extracted.  A directory that cannot be opened is reported and gets no
\* list; an entry whose node cannot be built, or whose own recurse_into fails,
\* is reported and left out; the list holds every other unfiltered entry, in
\* the order of the enumeration.
C9_FatalCauses ==
    /\ RecurseFailed =>
          (CanonicalizeFails \/ ParentFails \/ EntryFails \/ FileNameFails)
    /\ pc = "built" => \A n \in Tree :
          /\ (/\ n.node.file_type = Directory
              /\ BudgetAt(n) > 0
              /\ mode # DisplayDirectoryItself
              /\ ~IsSynthetic(n)
              /\ ~ReadDir(n.node.path).ok)
             => (n.node.content = None /\ Reported(n.node.path))
          /\ IsSome(n.node.content) =>
                /\ RealPaths(Unwrap(n.node.content))
                      = Survivors(n.node.path, BudgetAt(n))
                /\ \A i \in 1..Len(EntryPaths(n.node.path)) :
                      LET p == EntryPaths(n.node.path)[i] IN
                      (~Filtered(p) /\ ~FromPath(p).ok) => Reported(p)

C9_Witness ==
    /\ pc = "built"
    /\ Len(log) >= 1
    /\ IsSome(Root.content)

\* The fallback walk as the claim describes it.
RECURSIVE ClaimedWalk(_), ClaimedEntries(_, _)
ClaimedWalk(p) ==
    LET metadata == IF IsLink(p) THEN SymlinkMetadata(p) ELSE Metadata(p) IN
    IF ~metadata.ok THEN 0
    ELSE IF metadata.val.kind = "symlink" THEN metadata.val.len
    ELSE IF metadata.val.kind = "file" THEN metadata.val.len
    ELSE IF ~ReadDir(p).ok THEN metadata.val.len
    ELSE metadata.val.len + ClaimedEntries(ReadDir(p).val, 1)

ClaimedEntries(entries, i) ==
    IF i > Len(entries) THEN 0
    ELSE IF ~entries[i].ok THEN ClaimedEntries(entries, i + 1)
    ELSE ClaimedWalk(entries[i].val) + ClaimedEntries(entries, i + 1)

\* C10: in the fallback walk a symlink contributes its own size and is not
\* followed, a file its size, a directory its own size plus the walk of each
\* of its entries, and an entry whose metadata cannot be read contributes 0.
C10_FallbackWalk ==
    (pc = "sized" /\ Root.file_type = Directory /\ Root.content = None)
    => Root.size = ClaimedWalk(start)

\* The same walk with a symlink contributing 0, which is what the code does.
RECURSIVE WalkSkippingLinks(_), EntriesSkippingLinks(_, _)
WalkSkippingLinks(p) ==
    LET metadata == IF IsLink(p) THEN SymlinkMetadata(p) ELSE Metadata(p) IN
    IF ~metadata.ok THEN 0
    ELSE IF metadata.val.kind = "symlink" THEN 0
    ELSE IF metadata.val.kind = "file" THEN metadata.val.len
    ELSE IF ~ReadDir(p).ok THEN metadata.val.len
    ELSE metadata.val.len + EntriesSkippingLinks(ReadDir(p).val, 1)

EntriesSkippingLinks(entries, i) ==
    IF i > Len(entries) THEN 0
    ELSE IF ~entries[i].ok THEN EntriesSkippingLinks(entries, i + 1)
    ELSE WalkSkippingLinks(entries[i].val) + EntriesSkippingLinks(entries, i + 1)

C10_LinksContributeNothing ==
    (pc = "sized" /\ Root.file_type = Directory /\ Root.content = None)
    => Root.size = WalkSkippingLinks(start)

====
